---- MODULE Spec2Model ----
(***************************************************************************)
(* Volleyball stats tracker: the SQLite-backed REST service (server.js)    *)
(* and the state of the React client (App) that drives it.                 *)
(*                                                                         *)
(* Spec         pass events and their aggregates: the pass, stats and undo *)
(*              routes, called one request at a time, over registered and  *)
(*              unregistered players                                       *)
(* SpecPlayers  the players and sessions routes with every kind of body    *)
(* SpecClient   one client run: startup initialisation, rating taps and    *)
(*              undo, each handler split at its awaits                     *)
(* SpecCards    the client's active-card list                              *)
(* SpecStore    the three tables together: players registered and deleted, *)
(*              sessions created, passes recorded and undone               *)
(* SpecUndo     undo requests that overlap, one SQL statement at a time    *)
(***************************************************************************)
EXTENDS Integers, Sequences, FiniteSets, TLC

VARIABLES
    players,        \* table players: set of rows [id, name, jersey_number]
    playerSeq,      \* AUTOINCREMENT counter of players
    sessions,       \* table sessions: set of rows [id, name]
    sessionSeq,     \* AUTOINCREMENT counter of sessions
    pass_stats,     \* table pass_stats: set of rows [id, session_id, player_id, rating, timestamp]
    passSeq,        \* AUTOINCREMENT counter of pass_stats
    now,            \* CURRENT_TIMESTAMP, in whole seconds
    response,       \* the last HTTP response sent, with its route
    history,        \* per (session, player): ratings of the successful recordPass calls
    undone,         \* per (session, player): an undo has been answered with success
    sessionId,      \* client state: sessionId
    stats,          \* client state: stats, player id -> aggregate (or NoEntry)
    initPc,         \* client: position of initializeApp
    taps,           \* client: the handleAddPass calls in flight
    tapCount,       \* client: rating taps issued so far
    created,        \* sessions created by this client run
    cplayers,       \* client state: players
    activePlayers,  \* client state: activePlayers
    pendingDelete,  \* client: the handleDeletePlayer calls awaiting their response
    uiOps,          \* client: close, move and delete clicks so far
    undoReqs        \* server: the last_pass requests, each at one of its statements

storeVars  == <<players, playerSeq, sessions, sessionSeq, pass_stats, passSeq, now>>
traceVars  == <<response, history, undone>>
clientVars == <<sessionId, stats, initPc, taps, tapCount, created>>
cardVars   == <<cplayers, activePlayers, pendingDelete, uiOps>>
undoVars   == <<undoReqs>>
vars       == <<storeVars, traceVars, clientVars, cardVars, undoVars>>

(***************************************************************************)
(* Bounds                                                                  *)
(***************************************************************************)
MaxPlayers  == 2
MaxSessions == 2
MaxPasses   == 2
MaxClock    == 1
MaxTaps     == 2
CardPlayers == 7
MaxUiOps    == 2
MaxUndos    == 2

(***************************************************************************)
(* JSON values of a request body                                           *)
(***************************************************************************)
JSNum(n)    == [t |-> "number",    n |-> n, s |-> <<>>]
JSStr(s)    == [t |-> "string",    n |-> 0, s |-> s]
JSNull      == [t |-> "null",      n |-> 0, s |-> <<>>]
JSUndefined == [t |-> "undefined", n |-> 0, s |-> <<>>]

\* !v
Falsy(v) ==
    \/ v.t \in {"null", "undefined"}
    \/ v.t = "number" /\ v.n = 0
    \/ v.t = "string" /\ v.s = <<>>

\* String.prototype.trim on a string of blanks and letters
RECURSIVE TrimLeft(_)
TrimLeft(s) == IF s # <<>> /\ Head(s) = " " THEN TrimLeft(Tail(s)) ELSE s

RECURSIVE TrimRight(_)
TrimRight(s) ==
    IF s # <<>> /\ s[Len(s)] = " " THEN TrimRight(SubSeq(s, 1, Len(s) - 1)) ELSE s

Trim(s) == TrimRight(TrimLeft(s))

(***************************************************************************)
(* The store                                                               *)
(***************************************************************************)
PlayerIds == {p.id : p \in players}

SessionIds == {s.id : s \in sessions}

\* rating INTEGER CHECK (rating BETWEEN 0 AND 3): a NULL passes a CHECK, a
\* text that is no number keeps its type and sorts after every number
RatingCheck(v) ==
    CASE v.t = "null"   -> TRUE
      [] v.t = "number" -> 0 <= v.n /\ v.n <= 3
      [] OTHER          -> FALSE

PairRows(tbl, s, p) == {r \in tbl : r.session_id = s /\ r.player_id = p}

RECURSIVE SumRatings(_)
SumRatings(rows) ==
    IF rows = {} THEN 0
    ELSE LET r == CHOOSE x \in rows : TRUE
         IN  r.rating.n + SumRatings(rows \ {r})

NullAvg == [null |-> TRUE, num |-> 0, den |-> 1]

\* AVG(ps.rating): NULL ratings are skipped, NULL over no rating at all; the
\* quotient is kept as the pair num/den
Avg(rows) ==
    LET rated == {r \in rows : r.rating.t = "number"}
    IN  IF rated = {} THEN NullAvg
        ELSE [null |-> FALSE, num |-> SumRatings(rated), den |-> Cardinality(rated)]

\* Aggregate with the join condition on the session left out
Aggregate_AnySession(tbl, s, p) ==
    [player_id      |-> p.id,
     name           |-> p.name,
     jersey_number  |-> p.jersey_number,
     total_passes   |-> Cardinality({r \in tbl : r.player_id = p.id}),
     average_rating |-> Avg({r \in tbl : r.player_id = p.id})]

\* one row of players p LEFT JOIN pass_stats ps ON p.id = ps.player_id AND
\* ps.session_id = ? GROUP BY p.id
Aggregate(tbl, s, p) ==
    [player_id      |-> p.id,
     name           |-> p.name,
     jersey_number  |-> p.jersey_number,
     total_passes   |-> Cardinality(PairRows(tbl, s, p.id)),
     average_rating |-> Avg(PairRows(tbl, s, p.id))]

(***************************************************************************)
(* Inputs of the requests                                                  *)
(***************************************************************************)
Pairs == (1..MaxSessions) \X (1..MaxPlayers)

NameInputs == {JSUndefined, JSStr(<<>>), JSStr(<<" ">>), JSStr(<<"A">>)}

JerseyInputs == {JSUndefined, JSNull, JSNum(0), JSNum(-1), JSNum(7), JSStr(<<"x">>)}

ValidName == JSStr(<<"A">>)

ValidJersey == JSNum(7)

SessionNameInputs == {JSUndefined, JSStr(<<"S">>)}

SessionIdInputs == {JSNull} \cup {JSNum(s) : s \in 1..MaxSessions}

PlayerIdInputs == {JSNull} \cup {JSNum(p) : p \in 1..MaxPlayers}

RatingInputs ==
    {JSUndefined, JSNull, JSStr(<<"x">>)} \cup {JSNum(r) : r \in -1..4}

NullParam == JSStr(<<"n", "u", "l", "l">>)

(***************************************************************************)
(* Responses                                                               *)
(***************************************************************************)
\* what res.status(...).json(...) sends, kept with the route that sent it and
\* the :id / :sessionId of its path (0 for a route without one)
Reply(op, sessionParam, status, body) ==
    [op |-> op, session_id |-> sessionParam, status |-> status, body |-> body]

NoBody == <<>>

(***************************************************************************)
(* POST /api/players                                                       *)
(***************************************************************************)
\* if (!name || !jersey_number)
PlayerRequestInvalid(name, jersey_number) == Falsy(name) \/ Falsy(jersey_number)

AddPlayer(name, jersey_number) ==
    IF PlayerRequestInvalid(name, jersey_number)
    THEN /\ response' = Reply("addPlayer", 0, 400, NoBody)
         /\ UNCHANGED <<storeVars, history, undone>>
    ELSE /\ playerSeq < MaxPlayers
         /\ LET newPlayer == [id |-> playerSeq + 1, name |-> name,
                              jersey_number |-> jersey_number]
            IN  /\ players' = players \cup {newPlayer}
                /\ playerSeq' = playerSeq + 1
                /\ response' = Reply("addPlayer", 0, 200, newPlayer)
         /\ UNCHANGED <<sessions, sessionSeq, pass_stats, passSeq, now,
                        history, undone>>

(***************************************************************************)
(* DELETE /api/players/:id                                                 *)
(***************************************************************************)
\* DeletePlayer answering 404 when the DELETE matched no row
DeletePlayer_NotFound(id) ==
    /\ players' = {p \in players : p.id # id}
    /\ response' = IF \E p \in players : p.id = id
                   THEN Reply("deletePlayer", 0, 200,
                              [message |-> "Player deleted successfully"])
                   ELSE Reply("deletePlayer", 0, 404, NoBody)
    /\ UNCHANGED <<playerSeq, sessions, sessionSeq, pass_stats, passSeq, now,
                   history, undone>>

DeletePlayer(id) ==
    /\ players' = {p \in players : p.id # id}
    /\ response' = Reply("deletePlayer", 0, 200,
                         [message |-> "Player deleted successfully"])
    /\ UNCHANGED <<playerSeq, sessions, sessionSeq, pass_stats, passSeq, now,
                   history, undone>>

(***************************************************************************)
(* POST /api/sessions                                                      *)
(***************************************************************************)
InsertSession(name) == sessions \cup {[id |-> sessionSeq + 1, name |-> name]}

CreateSession(name) ==
    IF Falsy(name)
    THEN /\ response' = Reply("createSession", 0, 400, NoBody)
         /\ UNCHANGED <<storeVars, history, undone>>
    ELSE /\ sessionSeq < MaxSessions
         /\ sessions' = InsertSession(name)
         /\ sessionSeq' = sessionSeq + 1
         /\ response' = Reply("createSession", 0, 200,
                              [id |-> sessionSeq + 1, name |-> name])
         /\ UNCHANGED <<players, playerSeq, pass_stats, passSeq, now,
                        history, undone>>

(***************************************************************************)
(* POST /api/pass_stats                                                    *)
(***************************************************************************)
\* if (!session_id || !player_id || rating === undefined)
PassRequestInvalid(session_id, player_id, rating) ==
    Falsy(session_id) \/ Falsy(player_id) \/ rating.t = "undefined"

\* const newStat = { id: this.lastID, session_id, player_id, rating }
NewStat(session_id, player_id, rating) ==
    [id |-> passSeq + 1, session_id |-> session_id, player_id |-> player_id,
     rating |-> rating]

InsertPass(session_id, player_id, rating) ==
    pass_stats \cup {[id |-> passSeq + 1, session_id |-> session_id,
                      player_id |-> player_id, rating |-> rating,
                      timestamp |-> now]}

RecordPass(session_id, player_id, rating) ==
    IF PassRequestInvalid(session_id, player_id, rating)
    THEN /\ response' = Reply("recordPass", 0, 400, NoBody)
         /\ UNCHANGED <<storeVars, history, undone>>
    ELSE IF ~RatingCheck(rating)
    THEN /\ response' = Reply("recordPass", 0, 500, NoBody)
         /\ UNCHANGED <<storeVars, history, undone>>
    ELSE /\ passSeq < MaxPasses
         /\ pass_stats' = InsertPass(session_id.n, player_id.n, rating)
         /\ passSeq' = passSeq + 1
         /\ response' = Reply("recordPass", 0, 200,
                              NewStat(session_id.n, player_id.n, rating))
         /\ history' = [history EXCEPT ![<<session_id.n, player_id.n>>] =
                            Append(@, rating)]
         /\ UNCHANGED <<players, playerSeq, sessions, sessionSeq, now,
                        undone>>

(***************************************************************************)
(* GET /api/session/:id/stats                                              *)
(***************************************************************************)
SessionStats(s) == {Aggregate(pass_stats, s, p) : p \in players}

GetSessionStats(id) ==
    /\ IF id = NullParam
       THEN response' = Reply("getSessionStats", 0, 400, NoBody)
       ELSE response' = Reply("getSessionStats", id.n, 200, SessionStats(id.n))
    /\ UNCHANGED <<storeVars, history, undone>>

(***************************************************************************)
(* DELETE /api/session/:sessionId/player/:playerId/last_pass               *)
(***************************************************************************)
\* UndoFind with the session left out of the WHERE clause
UndoFind_AnySession(tbl, s, p) ==
    {r \in tbl :
        /\ r.player_id = p
        /\ \A o \in tbl : o.player_id = p => o.timestamp <= r.timestamp}

\* SELECT id ... WHERE session_id = ? AND player_id = ? ORDER BY timestamp DESC
\* LIMIT 1: the rows the query can return; among rows of one timestamp the
\* engine is free to pick
UndoFind(tbl, s, p) ==
    {r \in PairRows(tbl, s, p) :
        \A o \in PairRows(tbl, s, p) : o.timestamp <= r.timestamp}

\* UndoDelete removing the row found and every row inserted before it
UndoDelete_Through(tbl, id) == {r \in tbl : r.id > id}

\* DELETE FROM pass_stats WHERE id = ?
UndoDelete(tbl, id) == {r \in tbl : r.id # id}

ZeroAggregate(p) ==
    [player_id      |-> p,
     name           |-> JSUndefined,
     jersey_number  |-> JSUndefined,
     total_passes   |-> 0,
     average_rating |-> [null |-> FALSE, num |-> 0, den |-> 1]]

\* an entry of the client's stats object: absent, or the aggregate last merged
NoEntry == [held |-> FALSE, agg |-> ZeroAggregate(0)]

Entry(agg) == [held |-> TRUE, agg |-> agg]

\* the single-player aggregate read after the delete: updatedStats || {...}
UndoReread(tbl, s, p) ==
    IF \E pl \in players : pl.id = p
    THEN Aggregate(tbl, s, CHOOSE pl \in players : pl.id = p)
    ELSE ZeroAggregate(p)

UndoLastPass(s, p) ==
    IF UndoFind(pass_stats, s, p) = {}
    THEN /\ response' = Reply("undoLastPass", s, 404, NoBody)
         /\ UNCHANGED <<storeVars, history, undone>>
    ELSE \E row \in UndoFind(pass_stats, s, p) :
         /\ pass_stats' = UndoDelete(pass_stats, row.id)
         /\ response' = Reply("undoLastPass", s, 200,
                              [message |-> "Last pass deleted successfully",
                               stats |-> UndoReread(pass_stats', s, p)])
         /\ undone' = [undone EXCEPT ![<<s, p>>] = TRUE]
         /\ UNCHANGED <<players, playerSeq, sessions, sessionSeq, passSeq, now,
                        history>>

(***************************************************************************)
(* The same route, one SQL statement at a time: db.get and db.run hand the *)
(* statement to the database and return, and the callback runs when the    *)
(* statement is done, so the statements of several requests interleave     *)
(***************************************************************************)
UndoReq(n, s, p, pc, row, changes, status) ==
    [id |-> n, session_id |-> s, player_id |-> p, pc |-> pc, row |-> row,
     changes |-> changes, status |-> status]

UndoMoved(u, v) == (undoReqs \ {u}) \cup {v}

\* the request arrives and its SELECT runs: 404 if (!row), else the DELETE
\* of row.id is issued
UndoFindStep(s, p) ==
    /\ Cardinality(undoReqs) < MaxUndos
    /\ LET n == Cardinality(undoReqs) + 1
       IN  IF UndoFind(pass_stats, s, p) = {}
           THEN /\ response' = Reply("undoLastPass", s, 404, NoBody)
                /\ undoReqs' = undoReqs \cup {UndoReq(n, s, p, "done", 0, 0, 404)}
           ELSE /\ \E row \in UndoFind(pass_stats, s, p) :
                    undoReqs' = undoReqs \cup
                                  {UndoReq(n, s, p, "delete", row.id, 0, 0)}
                /\ response' = response
    /\ UNCHANGED <<storeVars, history, undone>>

\* the DELETE of the row found runs; changes is the number of rows it removed
UndoDeleteStep(u) ==
    /\ u.pc = "delete"
    /\ pass_stats' = UndoDelete(pass_stats, u.row)
    /\ undoReqs' = UndoMoved(u, [u EXCEPT !.pc = "reread",
                                         !.changes = Cardinality(pass_stats)
                                                       - Cardinality(pass_stats')])
    /\ UNCHANGED <<players, playerSeq, sessions, sessionSeq, passSeq, now,
                   traceVars>>

\* the aggregate is read again and the request is answered
UndoRereadStep(u) ==
    /\ u.pc = "reread"
    /\ response' = Reply("undoLastPass", u.session_id, 200,
                         [message |-> "Last pass deleted successfully",
                          stats |-> UndoReread(pass_stats, u.session_id,
                                               u.player_id)])
    /\ undone' = [undone EXCEPT ![<<u.session_id, u.player_id>>] = TRUE]
    /\ undoReqs' = UndoMoved(u, [u EXCEPT !.pc = "done", !.status = 200])
    /\ UNCHANGED <<storeVars, history>>

(***************************************************************************)
(* CURRENT_TIMESTAMP moves on by a second                                  *)
(***************************************************************************)
Tick ==
    /\ now < MaxClock
    /\ now' = now + 1
    /\ UNCHANGED <<players, playerSeq, sessions, sessionSeq, pass_stats, passSeq,
                   traceVars>>

(***************************************************************************)
(* The service, one request at a time                                      *)
(***************************************************************************)
Init ==
    /\ players = {}
    /\ playerSeq = 0
    /\ sessions = {}
    /\ sessionSeq = 0
    /\ pass_stats = {}
    /\ passSeq = 0
    /\ now = 0
    /\ response = Reply("none", 0, 0, NoBody)
    /\ history = [pr \in Pairs |-> <<>>]
    /\ undone = [pr \in Pairs |-> FALSE]
    /\ sessionId = JSNull
    /\ stats = [p \in 1..MaxPlayers |-> NoEntry]
    /\ initPc = "idle"
    /\ taps = {}
    /\ tapCount = 0
    /\ created = {}
    /\ cplayers = <<>>
    /\ activePlayers = <<>>
    /\ pendingDelete = {}
    /\ uiOps = 0
    /\ undoReqs = {}

clientFrame == UNCHANGED <<clientVars, cardVars, undoVars>>

RegisterPlayer == AddPlayer(ValidName, ValidJersey) /\ clientFrame

DeletePlayerReq == \E id \in 1..MaxPlayers : DeletePlayer(id) /\ clientFrame

RecordPassReq ==
    \E session_id \in SessionIdInputs, player_id \in PlayerIdInputs,
       rating \in RatingInputs :
        RecordPass(session_id, player_id, rating) /\ clientFrame

GetSessionStatsReq ==
    \E id \in {NullParam} \cup {JSNum(s) : s \in 1..MaxSessions} :
        GetSessionStats(id) /\ clientFrame

UndoLastPassReq == \E pr \in Pairs : UndoLastPass(pr[1], pr[2]) /\ clientFrame

TickReq == Tick /\ clientFrame

Next ==
    \/ RegisterPlayer
    \/ RecordPassReq
    \/ GetSessionStatsReq
    \/ UndoLastPassReq
    \/ TickReq

Spec == Init /\ [][Next]_vars

(***************************************************************************)
(* Player and session requests with every kind of body                     *)
(***************************************************************************)
AddPlayerReq ==
    \E name \in NameInputs, jersey_number \in JerseyInputs :
        AddPlayer(name, jersey_number) /\ clientFrame

CreateSessionReq ==
    \E name \in SessionNameInputs : CreateSession(name) /\ clientFrame

NextPlayers ==
    \/ AddPlayerReq
    \/ DeletePlayerReq
    \/ CreateSessionReq

SpecPlayers == Init /\ [][NextPlayers]_vars

(***************************************************************************)
(* The three tables together: players come and go, sessions are created,   *)
(* passes are recorded and undone                                          *)
(***************************************************************************)
\* The requests fall within one second, so the pass events of a pair carry one
\* timestamp and the undo's SELECT may return any of them.
RecordPairPassReq ==
    \E pr \in Pairs, rating \in 0..3 :
        RecordPass(JSNum(pr[1]), JSNum(pr[2]), JSNum(rating)) /\ clientFrame

NextStore ==
    \/ RegisterPlayer
    \/ DeletePlayerReq
    \/ CreateSessionReq
    \/ RecordPairPassReq
    \/ UndoLastPassReq

SpecStore == Init /\ [][NextStore]_vars

(***************************************************************************)
(* Undo requests that overlap                                              *)
(***************************************************************************)
serverFrame == UNCHANGED <<clientVars, cardVars>>

UndoFindReq == \E pr \in Pairs : UndoFindStep(pr[1], pr[2]) /\ serverFrame

UndoDeleteDone == \E u \in undoReqs : UndoDeleteStep(u) /\ serverFrame

UndoRereadDone == \E u \in undoReqs : UndoRereadStep(u) /\ serverFrame

NextUndo ==
    \/ RegisterPlayer
    \/ RecordPairPassReq
    \/ UndoFindReq
    \/ UndoDeleteDone
    \/ UndoRereadDone
    \/ TickReq

SpecUndo == Init /\ [][NextUndo]_vars

(***************************************************************************)
(* The client: App                                                         *)
(***************************************************************************)
SessionName == JSStr(<<"S">>)

Range(f) == {f[i] : i \in DOMAIN f}

RECURSIVE SortedIds(_)
SortedIds(ids) ==
    IF ids = {} THEN <<>>
    ELSE LET m == CHOOSE x \in ids : \A y \in ids : x <= y
         IN  <<m>> \o SortedIds(ids \ {m})

cardFrame == UNCHANGED <<cardVars, undoVars>>

\* createNewSession when the POST is answered: setSessionId(response.data.id)
CreateNewSessionOk ==
    /\ CreateSession(SessionName)
    /\ response'.status = 200
    /\ sessionId' = JSNum(response'.body.id)
    /\ created' = created \cup {response'.body.id}

\* createNewSession when the request fails: the error is logged and swallowed
CreateNewSessionFailed ==
    UNCHANGED <<storeVars, traceVars, sessionId, created>>

\* initializeApp: the effect runs, createNewSession sends its POST
InitStart ==
    /\ initPc = "idle"
    /\ initPc' = "session"
    /\ UNCHANGED <<storeVars, traceVars, sessionId, stats, taps, tapCount, created,
                   cardVars, undoVars>>

InitSessionCreated ==
    /\ initPc = "session"
    /\ CreateNewSessionOk
    /\ initPc' = "players"
    /\ UNCHANGED <<stats, taps, tapCount, cardVars, undoVars>>

InitSessionFailed ==
    /\ initPc = "session"
    /\ CreateNewSessionFailed
    /\ initPc' = "players"
    /\ UNCHANGED <<stats, taps, tapCount, cardVars, undoVars>>

\* fetchPlayers: setPlayers(response.data), or the error is logged
FetchPlayers(ok) ==
    /\ initPc = "players"
    /\ initPc' = "done"
    /\ cplayers' = IF ok THEN SortedIds(PlayerIds) ELSE cplayers
    /\ UNCHANGED <<storeVars, traceVars, sessionId, stats, taps, tapCount, created,
                   activePlayers, pendingDelete, uiOps,
                   undoVars>>

\* handleAddPass up to its first await: sessionId is the value of the render
\* the handler was created in
TapStart(playerId, rating) ==
    /\ tapCount < MaxTaps
    /\ playerId \in Range(cplayers)
    /\ tapCount' = tapCount + 1
    /\ taps' = taps \cup
         {[id |-> tapCount + 1, player_id |-> playerId, rating |-> rating,
           sessionId |-> sessionId,
           pc |-> IF Falsy(sessionId) THEN "session" ELSE "post",
           newSession |-> 0, status |-> 0, storedUnder |-> 0]}
    /\ UNCHANGED <<storeVars, traceVars, sessionId, stats, initPc, created, cardVars, undoVars>>

Moved(tp, pc) == (taps \ {tp}) \cup {[tp EXCEPT !.pc = pc]}

\* await createNewSession() inside handleAddPass
TapSessionCreated(tp) ==
    /\ tp.pc = "session"
    /\ CreateNewSessionOk
    /\ taps' = (taps \ {tp}) \cup
         {[tp EXCEPT !.pc = "post", !.newSession = response'.body.id]}
    /\ UNCHANGED <<stats, initPc, tapCount, cardVars, undoVars>>

TapSessionFailed(tp) ==
    /\ tp.pc = "session"
    /\ CreateNewSessionFailed
    /\ taps' = Moved(tp, "post")
    /\ UNCHANGED <<stats, initPc, tapCount, cardVars, undoVars>>

\* if (response.data.stats) setStats(prev => ({...prev, [playerId]: ...}))
MergeStats(old, playerId, resp) ==
    IF resp.status = 200 /\ "stats" \in DOMAIN resp.body
    THEN [old EXCEPT ![playerId] = Entry(resp.body.stats)]
    ELSE old

\* handleAddPass from the POST of the pass to its end
TapPost(tp) ==
    /\ tp.pc = "post"
    /\ RecordPass(tp.sessionId, JSNum(tp.player_id), JSNum(tp.rating))
    /\ stats' = MergeStats(stats, tp.player_id, response')
    /\ taps' = (taps \ {tp}) \cup
         {[tp EXCEPT !.pc = "done", !.status = response'.status,
                     !.storedUnder = IF response'.status = 200
                                     THEN response'.body.session_id ELSE 0]}
    /\ UNCHANGED <<sessionId, initPc, tapCount, created, cardVars, undoVars>>

\* handleUndoPass
HandleUndoPass(playerId) ==
    /\ ~Falsy(sessionId)
    /\ playerId \in Range(cplayers)
    /\ UndoLastPass(sessionId.n, playerId)
    /\ stats' = MergeStats(stats, playerId, response')
    /\ UNCHANGED <<sessionId, initPc, taps, tapCount, created, cardVars, undoVars>>

InitClient ==
    /\ players = {[id |-> p, name |-> ValidName, jersey_number |-> ValidJersey] :
                    p \in 1..MaxPlayers}
    /\ playerSeq = MaxPlayers
    /\ sessions = {}
    /\ sessionSeq = 0
    /\ pass_stats = {}
    /\ passSeq = 0
    /\ now = 0
    /\ response = Reply("none", 0, 0, NoBody)
    /\ history = [pr \in Pairs |-> <<>>]
    /\ undone = [pr \in Pairs |-> FALSE]
    /\ sessionId = JSNull
    /\ stats = [p \in 1..MaxPlayers |-> NoEntry]
    /\ initPc = "idle"
    /\ taps = {}
    /\ tapCount = 0
    /\ created = {}
    /\ cplayers = <<>>
    /\ activePlayers = <<>>
    /\ pendingDelete = {}
    /\ uiOps = 0
    /\ undoReqs = {}

FetchPlayersReply == \E ok \in BOOLEAN : FetchPlayers(ok)

RatingTap == \E playerId \in 1..MaxPlayers, rating \in 0..3 : TapStart(playerId, rating)

TapSessionCreatedReply == \E tp \in taps : TapSessionCreated(tp)

TapSessionFailedReply == \E tp \in taps : TapSessionFailed(tp)

TapPostReply == \E tp \in taps : TapPost(tp)

UndoTap == \E playerId \in 1..MaxPlayers : HandleUndoPass(playerId) /\ cardFrame

NextClient ==
    \/ InitStart
    \/ InitSessionCreated
    \/ InitSessionFailed
    \/ FetchPlayersReply
    \/ RatingTap
    \/ TapSessionCreatedReply
    \/ TapSessionFailedReply
    \/ TapPostReply
    \/ UndoTap

SpecClient == InitClient /\ [][NextClient]_vars

(***************************************************************************)
(* The client's cards: activePlayers                                       *)
(***************************************************************************)
MaxActive == 6

Without(list, id) == SelectSeq(list, LAMBDA x : x # id)

\* players.filter(player => !activePlayers.some(p => p.id === player.id))
Available == SelectSeq(cplayers, LAMBDA x : x \notin Range(activePlayers))

Swap(list, i, j) == [list EXCEPT ![i] = list[j], ![j] = list[i]]

\* CanActivate off by one
CanActivate_OffByOne(list) == Len(list) <= MaxActive

\* if (activePlayers.length < 6)
CanActivate(list) == Len(list) < MaxActive

storeFrame == UNCHANGED <<storeVars, traceVars, clientVars, undoVars>>

\* click on a button of Available Players. The click goes to the first
\* button: no handler looks at which player a card holds, only at whether two
\* ids are equal, so a click on another button is this one with the players
\* renamed.
Activate ==
    /\ Available # <<>>
    /\ activePlayers' = IF CanActivate(activePlayers)
                        THEN Append(activePlayers, Head(Available))
                        ELSE activePlayers
    /\ UNCHANGED <<cplayers, pendingDelete, uiOps>>
    /\ storeFrame

\* onClose of the k-th card
Close(k) ==
    /\ uiOps < MaxUiOps
    /\ k \in 1..Len(activePlayers)
    /\ activePlayers' = Without(activePlayers, activePlayers[k])
    /\ uiOps' = uiOps + 1
    /\ UNCHANGED <<cplayers, pendingDelete>>
    /\ storeFrame

\* onMoveLeft of the k-th card
MoveLeft(k) ==
    /\ uiOps < MaxUiOps
    /\ k \in 1..Len(activePlayers)
    /\ activePlayers' = IF k > 1 THEN Swap(activePlayers, k - 1, k)
                        ELSE activePlayers
    /\ uiOps' = uiOps + 1
    /\ UNCHANGED <<cplayers, pendingDelete>>
    /\ storeFrame

\* onMoveRight of the k-th card
MoveRight(k) ==
    /\ uiOps < MaxUiOps
    /\ k \in 1..Len(activePlayers)
    /\ activePlayers' = IF k < Len(activePlayers) THEN Swap(activePlayers, k, k + 1)
                        ELSE activePlayers
    /\ uiOps' = uiOps + 1
    /\ UNCHANGED <<cplayers, pendingDelete>>
    /\ storeFrame

\* handleDeletePlayer up to its await: players and activePlayers are the
\* values of the render the handler was created in
DeleteClick(i) ==
    /\ uiOps < MaxUiOps
    /\ i \in 1..Len(Available)
    /\ pendingDelete' = pendingDelete \cup
         {[id |-> Available[i], players |-> cplayers,
           activePlayers |-> activePlayers]}
    /\ uiOps' = uiOps + 1
    /\ UNCHANGED <<cplayers, activePlayers>>
    /\ storeFrame

\* handleDeletePlayer after the DELETE is answered
DeleteDone(d) ==
    /\ d \in pendingDelete
    /\ DeletePlayer(d.id)
    /\ cplayers' = Without(d.players, d.id)
    /\ activePlayers' = Without(d.activePlayers, d.id)
    /\ pendingDelete' = pendingDelete \ {d}
    /\ UNCHANGED <<uiOps, clientVars, undoVars>>

\* handleDeletePlayer when the DELETE fails: the error is logged
DeleteFailed(d) ==
    /\ d \in pendingDelete
    /\ pendingDelete' = pendingDelete \ {d}
    /\ UNCHANGED <<cplayers, activePlayers, uiOps>>
    /\ storeFrame

\* the run after initializeApp: a session is held and the players are listed.
\* The last player is listed once, or twice: fetchPlayers replaces the list
\* and handleAddPlayer appends to it, so a GET answered between a POST
\* /players and the arrival of its answer leaves the new player listed twice.
InitCards ==
    /\ players = {[id |-> p, name |-> ValidName, jersey_number |-> ValidJersey] :
                    p \in 1..CardPlayers}
    /\ playerSeq = CardPlayers
    /\ sessions = {[id |-> 1, name |-> SessionName]}
    /\ sessionSeq = 1
    /\ pass_stats = {}
    /\ passSeq = 0
    /\ now = 0
    /\ response = Reply("none", 0, 0, NoBody)
    /\ history = [pr \in Pairs |-> <<>>]
    /\ undone = [pr \in Pairs |-> FALSE]
    /\ sessionId = JSNum(1)
    /\ stats = [p \in 1..MaxPlayers |-> NoEntry]
    /\ initPc = "done"
    /\ taps = {}
    /\ tapCount = 0
    /\ created = {1}
    /\ cplayers \in {SortedIds(1..CardPlayers),
                     Append(SortedIds(1..CardPlayers), CardPlayers)}
    /\ activePlayers = <<>>
    /\ pendingDelete = {}
    /\ uiOps = 0
    /\ undoReqs = {}

CloseClick == \E k \in 1..MaxActive : Close(k)

MoveLeftClick == \E k \in 1..MaxActive : MoveLeft(k)

MoveRightClick == \E k \in 1..MaxActive : MoveRight(k)

DeleteIconClick == \E i \in 1..(CardPlayers + 1) : DeleteClick(i)

DeleteDoneReply == \E d \in pendingDelete : DeleteDone(d)

DeleteFailedReply == \E d \in pendingDelete : DeleteFailed(d)

NextCards ==
    \/ Activate
    \/ CloseClick
    \/ MoveLeftClick
    \/ MoveRightClick
    \/ DeleteIconClick
    \/ DeleteDoneReply
    \/ DeleteFailedReply

SpecCards == InitCards /\ [][NextCards]_vars

(***************************************************************************)
(* Properties of the store                                                 *)
(***************************************************************************)
RECURSIVE SumSeq(_)
SumSeq(h) == IF h = <<>> THEN 0 ELSE Head(h).n + SumSeq(Tail(h))

ValidRating(v) == v.t = "number" /\ v.n \in 0..3

Registered(p) == \E pl \in players : pl.id = p

\* the pass event of the pair with the highest insertion id
LatestInserted(s, p) ==
    CHOOSE r \in PairRows(pass_stats, s, p) :
        \A o \in PairRows(pass_stats, s, p) : o.id <= r.id

IsZero(avg) == ~avg.null /\ avg.num = 0

\* C1: after N >= 1 successful recordPass calls for a (session, player) pair,
\* all with ratings in {0,1,2,3} and with no undo of the pair, the row that
\* getSessionStats returns for the player has total_passes = N and
\* average_rating = (r1 + ... + rN) / N.
C1_StatsCountAndMean ==
    (response.op = "getSessionStats" /\ response.status = 200) =>
        \A row \in response.body :
            LET h == history[<<response.session_id, row.player_id>>]
            IN  (/\ ~undone[<<response.session_id, row.player_id>>]
                 /\ h # <<>>
                 /\ \A i \in 1..Len(h) : ValidRating(h[i]))
                => /\ row.total_passes = Len(h)
                   /\ ~row.average_rating.null
                   /\ row.average_rating.num * Len(h)
                        = SumSeq(h) * row.average_rating.den

\* C1 witness: stats were returned for a pair with two recorded passes of
\* different ratings and no undo.
C1_Witness ==
    /\ response.op = "getSessionStats"
    /\ response.status = 200
    /\ \E row \in response.body :
        LET h == history[<<response.session_id, row.player_id>>]
        IN  /\ ~undone[<<response.session_id, row.player_id>>]
            /\ Len(h) = 2
            /\ ValidRating(h[1]) /\ ValidRating(h[2])
            /\ h[1] # h[2]
            /\ row.total_passes = 2

\* C2: an undo for a registered player's pair holding N >= 1 pass events
\* (of valid ratings) deletes exactly the event with the highest insertion id (also among events
\* of one timestamp), and answers with total_passes = N-1 and the average of
\* the N-1 remaining ratings.
C2_UndoDeletesLatest ==
    [][\A pr \in Pairs :
        (/\ UndoLastPass(pr[1], pr[2])
         /\ Registered(pr[2])
         /\ PairRows(pass_stats, pr[1], pr[2]) # {}
         /\ \A r \in PairRows(pass_stats, pr[1], pr[2]) : ValidRating(r.rating))
        => /\ pass_stats' = pass_stats \ {LatestInserted(pr[1], pr[2])}
           /\ response'.status = 200
           /\ response'.body.stats.total_passes
                = Cardinality(PairRows(pass_stats, pr[1], pr[2])) - 1
           /\ response'.body.stats.average_rating
                = Avg(PairRows(pass_stats, pr[1], pr[2])
                        \ {LatestInserted(pr[1], pr[2])})]_vars

\* C3: an undo for a pair that holds no pass event answers 404 and changes no
\* table.
C3_UndoNothing ==
    [][\A pr \in Pairs :
        (/\ PairRows(pass_stats, pr[1], pr[2]) = {}
         /\ UndoLastPass(pr[1], pr[2]))
        => /\ response'.op = "undoLastPass"
           /\ response'.status = 404
           /\ UNCHANGED <<players, sessions, pass_stats>>]_vars

\* C3 witness: an undo was answered 404 while other pairs hold pass events.
C3_Witness ==
    /\ response.op = "undoLastPass"
    /\ response.status = 404
    /\ pass_stats # {}

\* C4: every stored pass event has a rating that is one of the integers
\* 0, 1, 2, 3.
C4_StoredRatingsValid == \A r \in pass_stats : ValidRating(r.rating)

\* the name is empty or blank, or the jersey number is no positive integer
PlayerInputBad(name, jersey_number) ==
    \/ name.t # "string"
    \/ Trim(name.s) = <<>>
    \/ jersey_number.t # "number"
    \/ jersey_number.n <= 0

\* C5: POST /players with an empty or blank name, or with a jersey number
\* that is absent, not a number or not a positive integer, is rejected and
\* leaves the players table unchanged.
C5_BadPlayerRejected ==
    [][\A name \in NameInputs, jersey_number \in JerseyInputs :
        (AddPlayer(name, jersey_number) /\ PlayerInputBad(name, jersey_number))
        => /\ response'.status = 400
           /\ players' = players]_vars

\* C6: getSessionStats returns a row for every registered player, and every
\* aggregate with no pass event, in getSessionStats and in the answer of the
\* undo that removes a pair's last pass, has total_passes = 0 and
\* average_rating = 0, not null.
C6_ZeroAggregate ==
    /\ (response.op = "getSessionStats" /\ response.status = 200) =>
        /\ {row.player_id : row \in response.body} = PlayerIds
        /\ \A row \in response.body :
            PairRows(pass_stats, response.session_id, row.player_id) = {}
            => row.total_passes = 0 /\ IsZero(row.average_rating)
    /\ (response.op = "undoLastPass" /\ response.status = 200) =>
        (PairRows(pass_stats, response.session_id,
                  response.body.stats.player_id) = {}
         => /\ response.body.stats.total_passes = 0
            /\ IsZero(response.body.stats.average_rating))

(***************************************************************************)
(* Properties of the client                                                *)
(***************************************************************************)
\* C7: the answer to a successful recordPass carries the recomputed aggregate
\* of the pair, and when the rating tap completes the client's stats entry of
\* the player is the store's aggregate of the pair.
C7_TapMergesAggregate ==
    [][\A tp \in taps :
        (TapPost(tp) /\ response'.status = 200)
        => /\ "stats" \in DOMAIN response'.body
           /\ stats'[tp.player_id].held
           /\ stats'[tp.player_id].agg
                = Aggregate(pass_stats', tp.sessionId.n,
                            CHOOSE pl \in players : pl.id = tp.player_id)]_vars

\* C8: a rating tap issued while the client holds no session id, and whose
\* session creation succeeds, has its pass stored under the session it
\* created.
C8_LazySessionCarriesTap ==
    \A tp \in taps :
        (tp.pc = "done" /\ tp.newSession # 0) => tp.storedUnder = tp.newSession

\* C9: one client run creates at most one session on the server.
C9_OneSessionPerRun == Cardinality(created) <= 1

\* C10: the active-card list never holds more than six players and never
\* holds a player twice.
C10_ActiveCards ==
    /\ Len(activePlayers) <= 6
    /\ \A i, j \in 1..Len(activePlayers) :
        activePlayers[i] = activePlayers[j] => i = j

\* C10 witness: six cards are shown, a seventh player is still available, and
\* cards have been closed or moved or a player deleted on the way.
C10_Witness ==
    /\ Len(activePlayers) = 6
    /\ Available # <<>>
    /\ uiOps > 0

(***************************************************************************)
(* Properties of the tables                                                *)
(***************************************************************************)
\* C11: deletePlayer of an id that is not in the players table answers
\* success and leaves the players table unchanged, and every deletePlayer(id)
\* ends in a state where deletePlayer(id) again changes no table and gives
\* the same answer.
C11_DeleteIdempotent ==
    [][\A id \in 1..MaxPlayers :
        DeletePlayer(id)
        => /\ response'.status = 200
           /\ (id \notin PlayerIds) => players' = players
           /\ {p \in players' : p.id # id} = players'
           /\ response' = Reply("deletePlayer", 0, 200,
                                [message |-> "Player deleted successfully"])
           /\ UNCHANGED <<playerSeq, sessions, sessionSeq, pass_stats,
                          passSeq>>]_vars

\* C11 witness: a deletePlayer was answered while the table holds every
\* player ever added, so the id it named was not in the table.
C11_Witness ==
    /\ response.op = "deletePlayer"
    /\ response.status = 200
    /\ players # {}
    /\ Cardinality(players) = playerSeq

\* C12: every stored pass event has a session_id that is the id of a row of
\* sessions and a player_id that is the id of a row of players.
C12_PassReferencesExist ==
    \A r \in pass_stats :
        r.session_id \in SessionIds /\ r.player_id \in PlayerIds

\* C13: every undoLastPass request answered with success has deleted exactly
\* one pass event, and once no request is in flight the number of requests
\* answered with success is the number of pass events removed.
C13_SuccessDeletesOne ==
    /\ \A u \in undoReqs : (u.pc = "done" /\ u.status = 200) => u.changes = 1
    /\ (\A u \in undoReqs : u.pc = "done")
        => Cardinality({u \in undoReqs : u.status = 200})
             = passSeq - Cardinality(pass_stats)

\* C14: a recordPass or an undoLastPass for a pair (S, P) leaves the pass
\* events and the aggregate of every other pair as they were, and leaves the
\* stats of every other session as they were.
C14_OtherPairsUntouched ==
    [][\A pr \in Pairs :
        (\/ \E rating \in 0..3 :
               RecordPass(JSNum(pr[1]), JSNum(pr[2]), JSNum(rating))
         \/ UndoLastPass(pr[1], pr[2]))
        => /\ \A other \in Pairs \ {pr} :
                /\ PairRows(pass_stats', other[1], other[2])
                     = PairRows(pass_stats, other[1], other[2])
                /\ \A pl \in players :
                     pl.id = other[2]
                     => Aggregate(pass_stats', other[1], pl)
                          = Aggregate(pass_stats, other[1], pl)
           /\ \A s \in (1..MaxSessions) \ {pr[1]} :
                {Aggregate(pass_stats', s, pl) : pl \in players'}
                  = SessionStats(s)]_vars

\* C14 witness: a pass was recorded for one pair while a registered player
\* holds a pass event in another session.
C14_Witness ==
    /\ response.op = "recordPass"
    /\ response.status = 200
    /\ \E r \in pass_stats :
        /\ r.session_id # response.body.session_id
        /\ r.player_id \in PlayerIds
        /\ r.id < response.body.id

====
